---- MODULE Spec2Model ----
(***************************************************************************)
(* Risk-adjusted position sizing and trade admission of the DStrade bot.   *)
(*                                                                         *)
(*   SymbolInfo            src/src/symbol_info.py                          *)
(*   RiskManager           src/src/risk_manager.py                         *)
(*   AdvancedRiskManager   src/src/risk_management/advanced_risk_manager.py*)
(*   PositionManager       src/src/position_manager.py                     *)
(*   ProfessionalTradingBot src/professional_bot.py                        *)
(*                                                                         *)
(* Quantities are exact fixed-point numbers: an order quantity is an       *)
(* integer number of units of 1/UnitsPerOne, a price and a notional are    *)
(* whole USDT.  Fractions (drawdown, multipliers) are kept exact by        *)
(* cross-multiplication or by a fixed power-of-ten scale.                  *)
(***************************************************************************)
EXTENDS Integers, Sequences, FiniteSets, TLC

\* ------------------------------------------------------------------ bounds
MaxPrice == 6
MaxNotional == 7
PriceUnit == 10
MaxDay == 1
MaxTrades == 12
LossSize == 15
WinSize == 10
EntryPrice == 100
BalanceStep == 150
MaxTradeLog == 2
StartTime == 1000
ElapseStep == 30
MaxElapsed == 120
MaxGateSize == 12
MaxStrength == 4
MaxPeakTrades == 6

\* The exits followed in a run of the EnhancedTradingBot of src/trading, the
\* closing orders followed per position, and the size of a large loss.
MaxExits == 3
MaxExitOrders == 2
BigLoss == 10 * LossSize

\* --------------------------------------------------------- generic helpers
Abs(x) == IF x < 0 THEN -x ELSE x

Min2(a, b) == IF a < b THEN a ELSE b

Max2(a, b) == IF a > b THEN a ELSE b

\* Python's round(n / d) for d > 0 and n >= 0: nearest integer, ties to even.
PyRound(n, d) ==
    LET q == n \div d
        r == n % d
    IN  IF 2 * r < d THEN q
        ELSE IF 2 * r > d THEN q + 1
        ELSE IF q % 2 = 0 THEN q ELSE q + 1

\* ---------------------------------------------------------------- SymbolInfo
\* Quantity resolution of the model: 0.001.
UnitsPerOne == 10 * 10 * 10

Symbols == {"SOLUSDT", "ADAUSDT", "AVAXUSDT"}

\* Symbols the quantity calculation is exercised with: one of the default
\* table and one that falls back to the generic default.
CalcSymbols == {"SOLUSDT", "AVAXUSDT"}

NoInfo == [none |-> TRUE]

\* SymbolInfo._get_default_symbol_info: generic defaults overridden by the
\* per-symbol table (quantities in units of 0.001).
DefaultSymbolInfo(symbol) ==
    LET generic == [min_order_qty |-> 1, max_order_qty |-> 1000000 * UnitsPerOne,
                    qty_step |-> 1, min_order_value |-> 5]
    IN  IF symbol = "SOLUSDT"
        THEN [generic EXCEPT !.min_order_qty = 100, !.qty_step = 100]
        ELSE IF symbol = "ADAUSDT"
        THEN [generic EXCEPT !.min_order_qty = 1000, !.qty_step = 100]
        ELSE generic

\* Constraint sets the exchange may answer with (lotSizeFilter of
\* /v5/market/instruments-info).
ExchangeInfos ==
    { [min_order_qty |-> 100, max_order_qty |-> 5000, qty_step |-> 100, min_order_value |-> 5],
      [min_order_qty |-> 100, max_order_qty |-> 250, qty_step |-> 100, min_order_value |-> 1],
      [min_order_qty |-> 10, max_order_qty |-> 100000, qty_step |-> 10, min_order_value |-> 1] }

\* Number of decimals of str(step), step given in units of 0.001.
DecimalPlaces(step) ==
    IF step % 100 = 0 THEN 1
    ELSE IF step % 10 = 0 THEN 2
    ELSE 3

Pow10(k) == IF k = 0 THEN 1 ELSE IF k = 1 THEN 10 ELSE IF k = 2 THEN 100 ELSE 1000

\* round(x, decimal_places) on a quantity given in units of 0.001.
RoundDecimals(q, places) ==
    LET grid == Pow10(3 - places)
    IN  PyRound(q, grid) * grid

\* SymbolInfo._round_to_step applied to the quotient num / den (in units).
RoundQuotientToStep(num, den, step) ==
    IF step <= 0 THEN num \div den
    ELSE RoundDecimals(PyRound(num, den * step) * step, DecimalPlaces(step))

\* SymbolInfo._round_to_step applied to a quantity already in units.
RoundToStep(quantity, step) == RoundQuotientToStep(quantity, 1, step)

\* quantity * price < min_order_value, quantity in units.
ValueBelowMin(quantity, price, info) ==
    quantity * price < info.min_order_value * UnitsPerOne

\* calculate_proper_quantity with the final cap not re-rounded to the step.
ProperQuantity_CapUnrounded(info, dnum, dden, price) ==
    LET step == info.qty_step
        q0 == RoundQuotientToStep(dnum * UnitsPerOne, dden * price, step)
        q1 == IF q0 < info.min_order_qty THEN RoundToStep(info.min_order_qty, step) ELSE q0
        m0 == RoundQuotientToStep(info.min_order_value * UnitsPerOne, price, step)
        m1 == IF m0 < info.min_order_qty THEN RoundToStep(info.min_order_qty, step) ELSE m0
        q2 == IF ValueBelowMin(q1, price, info) THEN m1 ELSE q1
    IN  IF q2 > info.max_order_qty THEN info.max_order_qty ELSE q2

\* SymbolInfo.calculate_proper_quantity, desired notional given as the
\* quotient dnum / dden USDT.
ProperQuantity(info, dnum, dden, price) ==
    LET step == info.qty_step
        q0 == RoundQuotientToStep(dnum * UnitsPerOne, dden * price, step)
        q1 == IF q0 < info.min_order_qty THEN RoundToStep(info.min_order_qty, step) ELSE q0
        m0 == RoundQuotientToStep(info.min_order_value * UnitsPerOne, price, step)
        m1 == IF m0 < info.min_order_qty THEN RoundToStep(info.min_order_qty, step) ELSE m0
        q2 == IF ValueBelowMin(q1, price, info) THEN m1 ELSE q1
    IN  IF q2 > info.max_order_qty THEN RoundToStep(info.max_order_qty, step) ELSE q2

\* SymbolInfo.validate_order_quantity: the rejection reason, "Valid" if none.
ValidateReason(info, quantity, price) ==
    LET rounded == RoundToStep(quantity, info.qty_step)
    IN  IF Abs(quantity - rounded) * 10000 > UnitsPerOne THEN "not a multiple of step"
        ELSE IF rounded < info.min_order_qty THEN "less than minimum"
        ELSE IF ValueBelowMin(rounded, price, info) THEN "order value less than minimum"
        ELSE "Valid"

\* ------------------------------------------------------- AdvancedRiskManager
\* A fraction n / d with d > 0, compared by cross-multiplication.
Frac(n, d) == [n |-> n, d |-> d]

FracLE(a, b) == a.n * b.d <= b.n * a.d

FracLT(a, b) == a.n * b.d < b.n * a.d

\* Percentages of the risk configuration (config.get defaults).
BASE_RISK_PCT == 2
MAX_DAILY_LOSS_PCT == 5
MAX_TOTAL_DRAWDOWN_PCT == 15
INITIAL_BALANCE == 1000

\* AdvancedRiskManager._calculate_current_drawdown
CalculateCurrentDrawdown(a) ==
    IF a.peak_balance = 0 THEN Frac(0, 1)
    ELSE Frac(a.peak_balance - a.current_balance, a.peak_balance)

\* fraction > pct / 100
AbovePct(f, pct) == f.n * 100 > pct * f.d

\* AdvancedRiskManager._get_risk_multiplier, in hundredths.
GetRiskMultiplier(a) ==
    LET byWinRate == IF a.total_trades > 10
                     THEN IF 10 * a.winning_trades > 6 * a.total_trades THEN 12
                          ELSE IF 10 * a.winning_trades < 4 * a.total_trades THEN 8
                          ELSE 10
                     ELSE 10
        byStreak == IF a.consecutive_losses >= 2 THEN 7 ELSE 10
    IN  byWinRate * byStreak

\* The consecutive-loss adjustment of calculate_position_size, in hundredths:
\* the first branch that matches is taken.
LossStreakFactor(a) ==
    IF a.consecutive_losses >= 3 THEN 50
    ELSE IF a.consecutive_losses >= 5 THEN 25
    ELSE 100

\* The drawdown adjustment of calculate_position_size, in tenths: the first
\* branch that matches is taken.
DrawdownFactor(a) ==
    IF AbovePct(CalculateCurrentDrawdown(a), 5) THEN 7
    ELSE IF AbovePct(CalculateCurrentDrawdown(a), 10) THEN 4
    ELSE 10

\* Product of the multipliers applied to balance * base risk, scale 10^5.
RiskFactor(a) == GetRiskMultiplier(a) * LossStreakFactor(a) * DrawdownFactor(a)

RiskFactorScale == 10 * 10 * 10 * 10 * 10

\* risk_amount of calculate_position_size, in units of 10^-7 USDT.
RiskAmount(a) == a.current_balance * BASE_RISK_PCT * RiskFactor(a)

\* AdvancedRiskManager.get_trading_aggressiveness, in thousandths.
GetTradingAggressiveness(a) ==
    LET d1 == IF AbovePct(a.drawdown, 5) THEN 8 ELSE 10
        d2 == IF AbovePct(a.drawdown, 10) THEN 6 ELSE 10
        good == /\ a.total_trades > 0
                /\ 10 * a.winning_trades > 6 * a.total_trades
                /\ a.consecutive_losses = 0
        w == IF good THEN 12 ELSE 10
    IN  Max2(100, Min2(2000, d1 * d2 * w))

AggressivenessScale == 10 * 10 * 10

\* abs(daily_pnl) >= current_balance * max_daily_loss
DailyLossLimitReached(a) ==
    Abs(a.daily_pnl) * 100 >= a.current_balance * MAX_DAILY_LOSS_PCT

\* AdvancedRiskManager.should_stop_trading
ShouldStopTrading(a) ==
    \/ a.drawdown.n * 100 >= MAX_TOTAL_DRAWDOWN_PCT * a.drawdown.d
    \/ a.consecutive_losses >= 10
    \/ DailyLossLimitReached(a)

\* The streak shortened by one on a win instead of being cleared.
NextConsecutiveLosses_Decrement(losses, is_win) ==
    IF is_win THEN (IF losses > 0 THEN losses - 1 ELSE 0) ELSE losses + 1

\* update_after_trade, win/loss statistics: the streak after the trade.
NextConsecutiveLosses(losses, is_win) == IF is_win THEN 0 ELSE losses + 1

\* max_drawdown overwritten by the current drawdown.
NextMaxDrawdown_Overwrite(old, current) == current

\* update_after_trade: max(self.max_drawdown, current_drawdown)
NextMaxDrawdown(old, current) == IF FracLT(old, current) THEN current ELSE old

\* The longest streak replaced by the current one after every trade.
NextMaxConsecutiveLosses_Current(old, streak, is_win) == streak

\* update_after_trade: max_consecutive_losses is touched on a loss only,
\* max(self.max_consecutive_losses, self.consecutive_losses).
NextMaxConsecutiveLosses(old, streak, is_win) ==
    IF is_win THEN old ELSE Max2(old, streak)

\* The peak following the balance down as well as up.
NextPeakBalance_Latest(peak, balance) == balance

\* update_after_trade: the peak is raised when the new balance is above it.
NextPeakBalance(peak, balance) == IF balance > peak THEN balance ELSE peak

\* AdvancedRiskManager.update_after_trade on the ledger record a.
AfterTrade(a, pnl, is_win) ==
    LET bal == a.current_balance + pnl
        peak == NextPeakBalance(a.peak_balance, bal)
        b == [a EXCEPT !.current_balance = bal, !.peak_balance = peak]
        dd == CalculateCurrentDrawdown(b)
        streak == NextConsecutiveLosses(a.consecutive_losses, is_win)
    IN  [b EXCEPT !.daily_pnl = a.daily_pnl + pnl,
                  !.total_trades = a.total_trades + 1,
                  !.drawdown = dd,
                  !.max_drawdown = NextMaxDrawdown(a.max_drawdown, dd),
                  !.winning_trades = IF is_win THEN a.winning_trades + 1 ELSE a.winning_trades,
                  !.consecutive_losses = streak,
                  !.max_consecutive_losses =
                      NextMaxConsecutiveLosses(a.max_consecutive_losses, streak, is_win)]

\* calculate_position_size without its return for price_risk_pct == 0: the
\* risk amount is divided by the zero price risk.
PositionSize_NoZeroCheck(a, entry_price, stop_loss) ==
    IF entry_price = 0 THEN [raised |-> TRUE, size |-> Frac(0, 1)]
    ELSE IF Abs(entry_price - stop_loss) = 0 THEN [raised |-> TRUE, size |-> Frac(0, 1)]
    ELSE IF DailyLossLimitReached(a) THEN [raised |-> FALSE, size |-> Frac(0, 1)]
    ELSE [raised |-> FALSE, size |-> Frac(RiskAmount(a), Abs(entry_price - stop_loss))]

\* calculate_position_size after the daily reset, for a symbol without
\* configured size limits: raised tells whether a ZeroDivisionError escapes
\* (abs(entry_price - stop_loss) / entry_price, risk_amount / price_risk_pct);
\* size is the fraction risk_amount / |entry_price - stop_loss|
\* (risk_amount in units of 10^-7 USDT).
PositionSize(a, entry_price, stop_loss) ==
    IF entry_price = 0 THEN [raised |-> TRUE, size |-> Frac(0, 1)]
    ELSE IF Abs(entry_price - stop_loss) = 0 THEN [raised |-> FALSE, size |-> Frac(0, 1)]
    ELSE IF DailyLossLimitReached(a) THEN [raised |-> FALSE, size |-> Frac(0, 1)]
    ELSE [raised |-> FALSE, size |-> Frac(RiskAmount(a), Abs(entry_price - stop_loss))]

\* AdvancedRiskManager._reset_daily_if_needed
ResetDailyIfNeeded(a, date) ==
    IF date # a.last_reset_date
    THEN [a EXCEPT !.daily_pnl = 0, !.last_reset_date = date]
    ELSE a

\* ---------------------------------------------------------------- RiskManager
MAX_DRAWDOWN_PCT == 15
DAILY_LOSS_LIMIT_PCT == 3
MIN_BALANCE_PCT == 30

\* RiskManager.calculate_drawdown
CalculateDrawdown(r) ==
    IF r.peak_balance = 0 THEN Frac(0, 1)
    ELSE Frac(r.peak_balance - r.current_balance, r.peak_balance)

\* The drawdown has reached the configured limit: drawdown >= MAX_DRAWDOWN.
DrawdownAtOrAboveLimit(r) ==
    CalculateDrawdown(r).n * 100 >= MAX_DRAWDOWN_PCT * CalculateDrawdown(r).d

\* can_trade: drawdown > Config.MAX_DRAWDOWN
DrawdownBlocks(r) ==
    CalculateDrawdown(r).n * 100 > MAX_DRAWDOWN_PCT * CalculateDrawdown(r).d

\* can_trade: calculate_daily_pnl() < -daily_loss_limit, for a positive
\* daily_start_balance.
DailyLossBlocks(r) ==
    (r.current_balance - r.daily_start_balance) * 100
        < 0 - DAILY_LOSS_LIMIT_PCT * r.daily_start_balance

\* can_trade: current_balance < initial_balance * 0.3
MinBalanceBlocks(r) ==
    r.current_balance * 100 < r.initial_balance * MIN_BALANCE_PCT

\* RiskManager.can_trade: "ok" for True, else the reason of the False.
CanTrade(r) ==
    IF DrawdownBlocks(r) THEN "max drawdown"
    ELSE IF DailyLossBlocks(r) THEN "daily loss limit"
    ELSE IF MinBalanceBlocks(r) THEN "minimum balance"
    ELSE "ok"

\* The daily window reset on every call, whatever the date.
ResetDailyLimits_Always(r, date) ==
    [r EXCEPT !.daily_start_balance = r.current_balance,
              !.trades = 0,
              !.last_reset_date = date]

\* RiskManager._reset_daily_limits
ResetDailyLimits(r, date) ==
    IF date # r.last_reset_date
    THEN [r EXCEPT !.daily_start_balance = r.current_balance,
                   !.trades = 0,
                   !.last_reset_date = date]
    ELSE r

\* RiskManager.update_balance
UpdatedBalance(r, new_balance, date) ==
    ResetDailyLimits([r EXCEPT !.current_balance = new_balance,
                               !.peak_balance = Max2(r.peak_balance, new_balance)],
                     date)

\* ------------------------------------------- PositionManager, trading bot
\* Config.SYMBOLS, in the order analyze_and_trade visits them.
SYMBOLS == <<"SOLUSDT", "ADAUSDT", "AVAXUSDT">>

RISK_PER_TRADE_PCT == 2
MAX_POSITION_SIZE == 100
STOP_LOSS_PCT == 2
TAKE_PROFIT_PCT == 4
COMMISSION_PER_MILLE == 1
MIN_POSITION_USDT == 1
MAX_SIMULTANEOUS_POSITIONS == 2
MIN_TRADE_INTERVAL == 60
TRADE_PAUSE == 2

NoPos == [none |-> TRUE]

None == 0

\* RiskManager.calculate_stop_loss_take_profit, levels in hundredths of USDT.
CalculateStopLossTakeProfit(entry_price, signal_type) ==
    IF signal_type = "BUY"
    THEN [stop_loss |-> entry_price * (100 - STOP_LOSS_PCT),
          take_profit |-> entry_price * (100 + TAKE_PROFIT_PCT)]
    ELSE [stop_loss |-> entry_price * (100 + STOP_LOSS_PCT),
          take_profit |-> entry_price * (100 - TAKE_PROFIT_PCT)]

\* analyze_and_trade: min(Config.MAX_POSITION_SIZE, current_balance *
\* Config.RISK_PER_TRADE), in hundredths of USDT.
PositionSizeUsdt(r) ==
    Min2(MAX_POSITION_SIZE * 100, r.current_balance * RISK_PER_TRADE_PCT)

\* RiskManager.validate_trade_size, size in hundredths of USDT.
ValidateTradeSize(r, usdt100) ==
    IF usdt100 < MIN_POSITION_USDT * 100 THEN "below minimum"
    ELSE IF usdt100 * 10 < r.current_balance * 5 THEN "too small for balance"
    ELSE IF usdt100 > r.current_balance * 20 THEN "too large for balance"
    ELSE "OK"

\* RiskManager.is_trade_profitable: total commission and net profit in units
\* of 10^-8 USDT (position_size in units of 0.001, take profit in hundredths).
TotalCommission(entry_price, position_size, take_profit) ==
    (entry_price * 100 + take_profit) * position_size * COMMISSION_PER_MILLE

NetProfit(entry_price, position_size, take_profit) ==
    Abs(take_profit - entry_price * 100) * position_size * 1000
        - TotalCommission(entry_price, position_size, take_profit)

\* BybitClient.place_order: the side sent to the exchange,
\* "Buy" if side.upper() == "BUY" else "Sell".
BybitSide(side) == IF side \in {"BUY", "Buy", "buy"} THEN "Buy" ELSE "Sell"

\* PositionManager.close_position: the side of the closing order.
CloseSide(position) == IF position.side = "Buy" THEN "Sell" ELSE "Buy"

\* monitor_active_positions: the stop-loss or take-profit test of a position
\* at current_price (whole USDT; the levels are in hundredths).
ExitReason(position, current_price) ==
    IF \/ position.side = "Buy" /\ current_price * 100 <= position.stop_loss
       \/ position.side = "Sell" /\ current_price * 100 >= position.stop_loss
    THEN "Stop Loss"
    ELSE IF \/ position.side = "Buy" /\ current_price * 100 >= position.take_profit
            \/ position.side = "Sell" /\ current_price * 100 <= position.take_profit
    THEN "Take Profit"
    ELSE "none"

\* open_position without its check for an already tracked position.
OpenSendsOrder_Always(positions, symbol) == TRUE

\* PositionManager.open_position: place_order is called unless the symbol is
\* already in active_positions.
OpenSendsOrder(positions, symbol) == positions[symbol] = NoPos

\* The position recorded whatever place_order returned.
OpenedPositions_IgnoreOrder(positions, symbol, position, order) ==
    IF OpenSendsOrder(positions, symbol)
    THEN [positions EXCEPT ![symbol] = position]
    ELSE positions

\* PositionManager.open_position: active_positions after the call; order
\* tells whether place_order returned a response.
OpenedPositions(positions, symbol, position, order) ==
    IF OpenSendsOrder(positions, symbol) /\ order
    THEN [positions EXCEPT ![symbol] = position]
    ELSE positions

\* PositionManager.close_position: place_order is called only for a tracked
\* symbol.
CloseSendsOrder(positions, symbol) == positions[symbol] # NoPos

\* PositionManager.close_position: active_positions after the call.
ClosedPositions(positions, symbol, order) ==
    IF CloseSendsOrder(positions, symbol) /\ order
    THEN [positions EXCEPT ![symbol] = NoPos]
    ELSE positions

\* ------------------------------------------ EnhancedTradingBot (enhanced_bot)
\* config['MIN_SIGNAL_STRENGTH'] and config['MAX_POSITIONS'] of the bot.
MIN_SIGNAL_STRENGTH == 3
MAX_POSITIONS == 2

\* len(self.positions): the symbols of the exchange snapshot.
PositionCount(snapshot) == Cardinality({s \in DOMAIN snapshot : snapshot[s] # "none"})

\* should_trade without its signal-strength check.
ShouldTrade_NoStrengthCheck(snapshot, symbol, signal, strength) ==
    IF PositionCount(snapshot) >= MAX_POSITIONS /\ snapshot[symbol] = "none" THEN FALSE
    ELSE IF snapshot[symbol] = "long" /\ signal = "BUY" THEN FALSE
    ELSE IF snapshot[symbol] = "short" /\ signal = "SELL" THEN FALSE
    ELSE TRUE

\* EnhancedTradingBot.should_trade(symbol, signals, balance)
ShouldTrade(snapshot, symbol, signal, strength) ==
    IF strength < MIN_SIGNAL_STRENGTH THEN FALSE
    ELSE IF PositionCount(snapshot) >= MAX_POSITIONS /\ snapshot[symbol] = "none" THEN FALSE
    ELSE IF snapshot[symbol] = "long" /\ signal = "BUY" THEN FALSE
    ELSE IF snapshot[symbol] = "short" /\ signal = "SELL" THEN FALSE
    ELSE TRUE

\* The two rejections removed down to the first: any positive net profit
\* opens the position.
GateOutcome_ProfitableOnly(net_profit, commission) ==
    IF ~(net_profit > 0) THEN "not profitable" ELSE "open"

\* analyze_and_trade after is_trade_profitable: the trade is skipped when it
\* is not profitable, skipped when net_profit < commission * 2, and
\* open_position is called otherwise.
GateOutcome(net_profit, commission) ==
    IF ~(net_profit > 0) THEN "not profitable"
    ELSE IF net_profit < 2 * commission THEN "profit too small"
    ELSE "open"

\* The risk check without its return: the cycle goes on whatever the answer.
AfterRiskCheck_NoReturn(answer) == "monitor"

\* run_trading_cycle: where the cycle goes after the risk check.
AfterRiskCheck(answer) == IF answer = "ok" THEN "monitor" ELSE "idle"

\* The instruments-info request ends in an exception.
GatewayRaises == [raises |-> TRUE]

\* get_symbol_info with the default constraints returned but not stored.
GetSymbolInfo_DefaultsNotCached(cache, symbol, answer) ==
    IF cache[symbol] # NoInfo
    THEN [info |-> cache[symbol], cache |-> cache, requested |-> FALSE, raised |-> FALSE]
    ELSE IF answer \in ExchangeInfos
    THEN [info |-> answer, cache |-> [cache EXCEPT ![symbol] = answer],
          requested |-> TRUE, raised |-> FALSE]
    ELSE [info |-> DefaultSymbolInfo(symbol), cache |-> cache,
          requested |-> TRUE, raised |-> FALSE]

\* SymbolInfo.get_symbol_info(symbol) on the cache: the set returned, the
\* cache afterwards, whether the gateway was asked and whether an exception
\* escapes.  answer is what the request yields: an exchange constraint set,
\* NoInfo for an empty answer or an error code, GatewayRaises for an
\* exception, which the except clause turns into the default set.
GetSymbolInfo(cache, symbol, answer) ==
    IF cache[symbol] # NoInfo
    THEN [info |-> cache[symbol], cache |-> cache, requested |-> FALSE, raised |-> FALSE]
    ELSE IF answer \in ExchangeInfos
    THEN [info |-> answer, cache |-> [cache EXCEPT ![symbol] = answer],
          requested |-> TRUE, raised |-> FALSE]
    ELSE [info |-> DefaultSymbolInfo(symbol),
          cache |-> [cache EXCEPT ![symbol] = DefaultSymbolInfo(symbol)],
          requested |-> TRUE, raised |-> FALSE]

VARIABLES symbol_info_cache, calc, check, today, arm, sizing, trade, rm, verdict,
          active_positions, last_trade_time, now, pc, idx, trades_executed,
          cycle_time, cycle_log, last_open_time, gate, holding, last_call,
          positions, analysis, highest, update, requests, monitored,
          is_running, run_pc, cursor, entered, exits, entry, seen, shutdown,
          engine, evaluation, fetch

\* requests counts, per symbol, the instruments-info requests sent.
symvars == <<symbol_info_cache, calc, check, requests>>

armvars == <<arm, sizing, trade>>

\* update is the latest update_balance call, none once another operation of
\* the ledger has followed it.
rmvars == <<rm, verdict, update>>

botvars == <<active_positions, last_trade_time, now, pc, idx, trades_executed,
             cycle_time, cycle_log, last_open_time>>

vars == <<symbol_info_cache, calc, check, today, arm, sizing, trade, rm, verdict,
          active_positions, last_trade_time, now, pc, idx, trades_executed,
          cycle_time, cycle_log, last_open_time, gate, holding, last_call,
          positions, analysis, highest, update, requests, monitored,
          is_running, run_pc, cursor, entered, exits, entry, seen, shutdown,
          engine, evaluation, fetch>>

\* EnhancedTradingBot of src/trading: run_pc is the position in run, cursor
\* the index of the symbol processed next, entered the bot's
\* active_positions, seen the symbols processed in the running iteration.
\* exits counts, for the latest position entered per symbol, the closing
\* orders sent and the update_after_trade calls; entry is the enter_trade
\* that recorded a position in the latest step; shutdown is the record of
\* cleanup.
tbvars == <<is_running, run_pc, cursor, entered, exits, entry, seen, shutdown>>

\* monitored is the latest monitoring pass over the tracked positions: the
\* prices it observed and the symbols it called close_position for.
\* engine is the TradingEngine: the position in execute_trading_cycle (pc,
\* queue: the pairs of all_data still to visit), pair_signals, the pairs with
\* an open position in active_positions, and for the running cycle the pairs
\* with a full history (ready), the pairs whose processing raised, and the
\* pairs whose signal was generated and executed (handled).
\* evaluation is the latest call of TradingStrategy.analyze_symbol or
\* _evaluate_signals with its result.
\* fetch is the latest balance-update step of run_trading_cycle: whether the
\* balance request failed, and the RiskManager ledger before the step.
latevars == <<monitored, tbvars, engine, evaluation, fetch>>

\* EnhancedTradingBot: positions is the snapshot of exchange positions taken by
\* get_open_positions, analysis the latest analyze_symbol call.
ebvars == <<positions, analysis>>

\* The record of the PositionManager interface: holding[s] tells whether the
\* latest successful order for s was an opening one; last_call is the latest
\* open_position or close_position call.
pmvars == <<holding, last_call>>

NoCall == [done |-> FALSE]

SymInit ==
    /\ symbol_info_cache = [s \in Symbols |-> NoInfo]
    /\ calc = NoCall
    /\ check = NoCall
    /\ requests = [s \in Symbols |-> 0]

\* AdvancedRiskManager.__init__
ArmInit ==
    /\ arm = [initial_balance |-> INITIAL_BALANCE, current_balance |-> INITIAL_BALANCE,
              peak_balance |-> INITIAL_BALANCE, total_trades |-> 0, winning_trades |-> 0,
              consecutive_losses |-> 0, max_consecutive_losses |-> 0,
              drawdown |-> Frac(0, 1), max_drawdown |-> Frac(0, 1),
              daily_pnl |-> 0, last_reset_date |-> 0]
    /\ sizing = NoCall
    /\ trade = NoCall

\* RiskManager.__init__(initial_balance); trades is the length of the day's
\* trade log.
RmInit ==
    /\ rm = [initial_balance |-> INITIAL_BALANCE, current_balance |-> INITIAL_BALANCE,
             peak_balance |-> INITIAL_BALANCE, daily_start_balance |-> INITIAL_BALANCE,
             last_reset_date |-> 0, trades |-> 0]
    /\ verdict = "none"
    /\ update = NoCall

\* ProfessionalTradingBot.__init__ and PositionManager.__init__.  now is
\* time.time(); cycle_log lists the stages the running cycle has executed;
\* last_open_time is the time of the latest position opening (0: none yet).
BotInit ==
    /\ active_positions = [s \in Symbols |-> NoPos]
    /\ last_trade_time = 0
    /\ now = StartTime
    /\ pc = "idle"
    /\ idx = 0
    /\ trades_executed = 0
    /\ cycle_time = 0
    /\ cycle_log = {}
    /\ last_open_time = 0

\* config['symbols'] of the EnhancedTradingBot of src/trading, in the order
\* run visits them.
TradedSymbols == <<"SOLUSDT", "ADAUSDT">>

Traded == {TradedSymbols[i] : i \in 1..Len(TradedSymbols)}

NoExits == [orders |-> 0, updates |-> 0]

\* EnhancedTradingBot.__init__ (src/trading)
TbInit ==
    /\ is_running = FALSE
    /\ run_pc = "init"
    /\ cursor = 1
    /\ entered = [s \in Traded |-> NoPos]
    /\ exits = [s \in Traded |-> NoExits]
    /\ entry = NoCall
    /\ seen = {}
    /\ shutdown = NoCall

\* Config.TRADING_PAIRS (three of the default pairs), in the order
\* execute_trading_cycle visits them.
TRADING_PAIRS == <<"BTCUSDT", "ETHUSDT", "ADAUSDT">>

Pairs == {TRADING_PAIRS[i] : i \in 1..Len(TRADING_PAIRS)}

\* TradingEngine.__init__
EngineInit ==
    engine = [pc |-> "idle", queue |-> <<>>,
              pair_signals |-> [p \in Pairs |-> "none"],
              positions |-> [p \in Pairs |-> FALSE],
              ready |-> {}, raised |-> {}, handled |-> {}]

\* highest records, for each of the two ledgers, the largest value its
\* current_balance has taken since construction.
Init ==
    /\ SymInit
    /\ ArmInit
    /\ RmInit
    /\ BotInit
    /\ today = 0
    /\ gate = NoCall
    /\ holding = [s \in Symbols |-> FALSE]
    /\ last_call = NoCall
    /\ positions = [s \in Symbols |-> "none"]
    /\ analysis = NoCall
    /\ highest = [arm |-> INITIAL_BALANCE, rm |-> INITIAL_BALANCE]
    /\ monitored = NoCall
    /\ TbInit
    /\ EngineInit
    /\ evaluation = NoCall
    /\ fetch = NoCall

\* SymbolInfo.get_symbol_info: the cached set, else what the gateway request
\* yields: resp is an exchange constraint set, or NoInfo for an empty answer,
\* an error code or an exception, which all select the default table.
ResolvedInfo(symbol, resp) == GetSymbolInfo(symbol_info_cache, symbol, resp).info

GatewayAnswers == ExchangeInfos \cup {NoInfo, GatewayRaises}

\* The answers to choose from in a call for symbol: no request is sent for a
\* cached symbol, so there is no answer to choose.
AnswersFor(symbol) ==
    IF symbol_info_cache[symbol] # NoInfo THEN {NoInfo} ELSE GatewayAnswers

Prices == 1..MaxPrice

CalculateProperQuantity(symbol, desired, price) ==
    \E resp \in AnswersFor(symbol) :
        LET got == GetSymbolInfo(symbol_info_cache, symbol, resp)
            info == got.info
            p == price * PriceUnit
        IN  /\ symbol_info_cache' = got.cache
            /\ requests' = IF got.requested THEN [requests EXCEPT ![symbol] = @ + 1]
                           ELSE requests
            /\ calc' = [done |-> TRUE, symbol |-> symbol, desired |-> desired, price |-> p,
                        info |-> info, quantity |-> ProperQuantity(info, desired, 1, p),
                        requested |-> got.requested, raised |-> got.raised,
                        answer |-> IF got.requested THEN resp ELSE NoInfo]
            /\ check' = NoCall

ValidateOrderQuantity(symbol, quantity, price) ==
    \E resp \in AnswersFor(symbol) :
        LET got == GetSymbolInfo(symbol_info_cache, symbol, resp)
            info == got.info
            p == price * PriceUnit
        IN  /\ symbol_info_cache' = got.cache
            /\ requests' = IF got.requested THEN [requests EXCEPT ![symbol] = @ + 1]
                           ELSE requests
            /\ check' = [done |-> TRUE, symbol |-> symbol, quantity |-> quantity, price |-> p,
                         info |-> info, reason |-> ValidateReason(info, quantity, p),
                         requested |-> got.requested, raised |-> got.raised,
                         answer |-> IF got.requested THEN resp ELSE NoInfo]
            /\ UNCHANGED calc

\* test_fixes: the quantity just calculated is validated for the same symbol
\* and price; check is the verdict on the current calc, none until validated.
ValidateCalculated ==
    /\ calc.done
    /\ ValidateOrderQuantity(calc.symbol, calc.quantity, calc.price \div PriceUnit)

SymNext ==
    /\ \/ \E s \in CalcSymbols, d \in 1..MaxNotional, p \in Prices :
              CalculateProperQuantity(s, d, p)
       \/ ValidateCalculated
    /\ UNCHANGED <<today, armvars, rmvars, botvars, gate, pmvars, ebvars, highest, latevars>>

SpecSymbol == Init /\ [][SymNext]_vars

\* ------------------------------------------------ AdvancedRiskManager actions
\* The calendar date advances (datetime.now().date()).
DayRollover ==
    /\ today < MaxDay
    /\ today' = today + 1

\* AdvancedRiskManager.update_after_trade(pnl, is_win)
UpdateAfterTrade(pnl, is_win) ==
    /\ arm.total_trades < MaxTrades
    /\ arm' = AfterTrade(arm, pnl, is_win)
    /\ highest' = [highest EXCEPT !.arm = Max2(@, arm'.current_balance)]
    /\ trade' = [done |-> TRUE, pnl |-> pnl, is_win |-> is_win]
    /\ sizing' = NoCall

\* AdvancedRiskManager.calculate_position_size(entry_price, stop_loss, symbol)
\* for a symbol without configured size limits.  The size is the fraction
\* risk_amount / |entry - stop| (risk_amount in units of 10^-7 USDT).
CalculatePositionSize(entry_price, stop_loss) ==
    LET a == ResetDailyIfNeeded(arm, today)
        risk == RiskAmount(a)
        answer == PositionSize(a, entry_price, stop_loss)
    IN  /\ arm' = a
        /\ sizing' = [done |-> TRUE, entry_price |-> entry_price, stop_loss |-> stop_loss,
                      risk_amount |-> risk, position_size |-> answer.size,
                      raised |-> answer.raised,
                      aggressiveness |-> GetTradingAggressiveness(a)]
        /\ trade' = NoCall

Pnls == {0 - LossSize, WinSize}

StopLosses == {EntryPrice - 2, EntryPrice}

ArmNext ==
    /\ \/ \E pnl \in Pnls : UpdateAfterTrade(pnl, pnl > 0) /\ UNCHANGED today
       \/ \E sl \in StopLosses :
              CalculatePositionSize(EntryPrice, sl) /\ UNCHANGED <<today, highest>>
       \/ DayRollover /\ UNCHANGED <<armvars, highest>>
    /\ UNCHANGED <<symvars, rmvars, botvars, gate, pmvars, ebvars, latevars>>

SpecLedger == Init /\ [][ArmNext]_vars

\* min_order_value <= max_order_qty * price: the constraints can be met.
Satisfiable(info, price) ==
    (info.min_order_value * UnitsPerOne + price - 1) \div price <= info.max_order_qty

\* C1: whenever min_order_value <= max_order_qty * price, the quantity
\* returned by calculate_proper_quantity is accepted by
\* validate_order_quantity for the same symbol and price.
C1_CalculatedQuantityValid ==
    (check.done /\ Satisfiable(check.info, check.price)) => check.reason = "Valid"

\* C2: normalisation is idempotent: the notional of a calculated quantity,
\* quantity * price, is normalised to that same quantity.
C2_Idempotent ==
    calc.done =>
        ProperQuantity(calc.info, calc.quantity * calc.price, UnitsPerOne, calc.price)
            = calc.quantity

\* A calculation that moved the order off the desired notional (rounded,
\* bumped to a minimum or capped) has been made.
C2_Witness ==
    /\ calc.done
    /\ calc.quantity > 0
    /\ calc.quantity * calc.price # calc.desired * UnitsPerOne
    /\ calc.quantity = RoundToStep(calc.info.max_order_qty, calc.info.qty_step)

\* C19: get_symbol_info never raises; whether the gateway request succeeds,
\* comes back empty or throws, it returns a constraint set (the exchange's
\* data, else the symbol's entry of the default table, else the generic
\* default), and once a symbol has been asked for, every later call returns
\* the same cached set without another gateway request.
C19_ConstraintCache ==
    /\ [](\A r \in {calc, check} :
             r.done =>
                 /\ ~r.raised
                 /\ r.info \in ExchangeInfos \cup {DefaultSymbolInfo(r.symbol)}
                 /\ r.requested =>
                        r.info = IF r.answer \in ExchangeInfos THEN r.answer
                                 ELSE DefaultSymbolInfo(r.symbol)
                 /\ symbol_info_cache[r.symbol] = r.info)
    /\ [](\A s \in Symbols : requests[s] <= 1)
    /\ [][\A s \in Symbols :
             symbol_info_cache[s] # NoInfo =>
                 (symbol_info_cache'[s] = symbol_info_cache[s] /\ requests'[s] = requests[s])]_vars

\* A symbol whose first request threw is served from the cache by a later
\* call, with the default set and without a second request.
C19_Witness ==
    /\ calc.done /\ check.done
    /\ calc.requested /\ calc.answer = GatewayRaises
    /\ ~check.requested
    /\ check.info = DefaultSymbolInfo(check.symbol)
    /\ requests[check.symbol] = 1

\* -------------------------------------------------------- RiskManager actions
\* Balances the exchange reports.
Balances == {INITIAL_BALANCE - 2 * BalanceStep, INITIAL_BALANCE - BalanceStep - 10,
             INITIAL_BALANCE - BalanceStep, 970, INITIAL_BALANCE,
             INITIAL_BALANCE + BalanceStep}

\* RiskManager.update_balance(new_balance)
UpdateBalance(new_balance) ==
    /\ rm' = UpdatedBalance(rm, new_balance, today)
    /\ highest' = [highest EXCEPT !.rm = Max2(@, new_balance)]
    /\ update' = [done |-> TRUE, new_balance |-> new_balance, date |-> today]
    /\ verdict' = "none"

\* RiskManager.record_trade: one more entry in the day's trade log.
RecordTrade ==
    /\ rm.trades < MaxTradeLog
    /\ rm' = [rm EXCEPT !.trades = rm.trades + 1]
    /\ verdict' = "none"
    /\ update' = NoCall

\* RiskManager.can_trade(); verdict is its answer for the current ledger.
CanTradeCall ==
    /\ verdict' = CanTrade(rm)
    /\ update' = NoCall
    /\ UNCHANGED rm

RmNext ==
    /\ \/ \E b \in Balances : UpdateBalance(b) /\ UNCHANGED today
       \/ RecordTrade /\ UNCHANGED <<today, highest>>
       \/ CanTradeCall /\ UNCHANGED <<today, highest>>
       \/ DayRollover /\ UNCHANGED <<rmvars, highest>>
    /\ UNCHANGED <<symvars, armvars, botvars, gate, pmvars, ebvars, latevars>>

SpecRisk == Init /\ [][RmNext]_vars

\* C3: whenever the drawdown (peak_balance - current_balance) / peak_balance
\* is greater than or equal to the maximum drawdown limit, can_trade()
\* returns False.
C3_DrawdownAtLimitBlocks ==
    (verdict # "none" /\ DrawdownAtOrAboveLimit(rm)) => verdict # "ok"

\* C18: when update_balance(new_balance) is called on a date other than
\* last_reset_date, afterwards daily_start_balance = current_balance =
\* new_balance, the day's trade log is empty and last_reset_date is the
\* current date; when the date has not changed, daily_start_balance, the
\* trade log and last_reset_date are left as they were.
C18_DailyWindowReset ==
    [][(update'.done /\ update' # update) =>
          IF today # rm.last_reset_date
          THEN /\ rm'.daily_start_balance = update'.new_balance
               /\ rm'.current_balance = update'.new_balance
               /\ rm'.trades = 0
               /\ rm'.last_reset_date = today
          ELSE /\ rm'.current_balance = update'.new_balance
               /\ rm'.daily_start_balance = rm.daily_start_balance
               /\ rm'.trades = rm.trades
               /\ rm'.last_reset_date = rm.last_reset_date]_vars

\* update_balance has opened a new daily window at a balance other than the
\* initial one.
C18_Witness ==
    /\ update.done
    /\ today > 0
    /\ update.date = today
    /\ rm.last_reset_date = today
    /\ rm.trades = 0
    /\ rm.daily_start_balance = update.new_balance
    /\ rm.daily_start_balance # INITIAL_BALANCE

\* The daily P&L fraction has reached the limit:
\* (current_balance - daily_start_balance) / daily_start_balance
\* <= -daily_loss_limit.
DailyLossAtOrBelowLimit(r) ==
    (r.current_balance - r.daily_start_balance) * 100
        <= 0 - DAILY_LOSS_LIMIT_PCT * r.daily_start_balance

\* C13: whenever the daily P&L fraction is less than or equal to
\* -daily_loss_limit, can_trade() returns False.
C13_DailyLossAtLimitBlocks ==
    (verdict # "none" /\ DailyLossAtOrBelowLimit(rm)) => verdict # "ok"

\* --------------------------------------------- ProfessionalTradingBot actions
\* Balances get_account_balance reports to the bot.
BotBalances == {INITIAL_BALANCE - BalanceStep, INITIAL_BALANCE}

\* Prices get_current_price reports to the bot (whole USDT).
BotPrices == {4 * PriceUnit, 5 * PriceUnit}

\* The instruments-info request of the bot's SymbolInfo fails or comes back
\* empty, so that the default table is used.
BotGatewayAnswers == {NoInfo}

ActiveCount == Cardinality({s \in Symbols : active_positions[s] # NoPos})

\* run_trading_cycle up to the risk check: the balance is fetched and stored,
\* can_trade() decides whether the cycle goes on.
StartCycle ==
    /\ pc = "idle"
    /\ \E balance \in BotBalances :
           LET r == UpdatedBalance(rm, balance, today)
           IN  /\ rm' = r
               /\ verdict' = CanTrade(r)
               /\ pc' = AfterRiskCheck(CanTrade(r))
               /\ highest' = [highest EXCEPT !.rm = Max2(@, balance)]
               /\ update' = [done |-> TRUE, new_balance |-> balance, date |-> today]
    /\ cycle_log' = {}
    /\ UNCHANGED <<active_positions, last_trade_time, now, idx, trades_executed,
                   cycle_time, last_open_time, today, symvars, armvars>>

\* monitor_active_positions: the symbols close_position is called for, given
\* the price fetched for every symbol (None: no price, the symbol is skipped).
ClosesIssued(tracked, price) ==
    {s \in Symbols : /\ tracked[s] # NoPos
                     /\ price[s] # None
                     /\ ExitReason(tracked[s], price[s]) # "none"}

\* monitor_active_positions: the tracked positions after the pass; order[s]
\* tells whether the closing order of s is accepted by the exchange.
MonitoredPositions(tracked, price, order) ==
    [s \in Symbols |-> IF s \in ClosesIssued(tracked, price) /\ order[s] THEN NoPos
                       ELSE tracked[s]]

\* monitor_active_positions: for every active position the price is fetched
\* (None: no price) and a position at or beyond its stop loss or take profit
\* is closed by PositionManager.close_position, whose order succeeds or not.
MonitorActivePositions ==
    /\ pc = "monitor"
    /\ \E price \in [Symbols -> BotPrices \cup {None}], order \in [Symbols -> BOOLEAN] :
           /\ active_positions' = MonitoredPositions(active_positions, price, order)
           /\ cycle_log' = cycle_log \cup {"monitor"}
                            \cup (IF ClosesIssued(active_positions, price) # {}
                                  THEN {"order"} ELSE {})
    /\ pc' = "limits"
    /\ UNCHANGED <<last_trade_time, now, idx, trades_executed, cycle_time,
                   last_open_time, today, rmvars, symvars, armvars, highest>>

\* run_trading_cycle: the position limit and the interval since the last
\* trade are checked once, before the symbols are analysed.
CheckLimits ==
    /\ pc = "limits"
    /\ IF ActiveCount >= MAX_SIMULTANEOUS_POSITIONS
       THEN /\ pc' = "idle"
            /\ UNCHANGED <<idx, trades_executed, cycle_time>>
       ELSE IF now - last_trade_time < MIN_TRADE_INTERVAL
       THEN /\ pc' = "idle"
            /\ UNCHANGED <<idx, trades_executed, cycle_time>>
       ELSE /\ pc' = "analyze"
            /\ idx' = 1
            /\ trades_executed' = 0
            /\ cycle_time' = now
    /\ UNCHANGED <<active_positions, last_trade_time, now, cycle_log,
                   last_open_time, today, rmvars, symvars, armvars, highest>>

\* One iteration of the loop of analyze_and_trade over Config.SYMBOLS.
\* klines: get_klines returned at least 50 rows; signal: the answer of
\* analyze_symbol; price: get_current_price (None on failure); order: whether
\* place_order succeeds; resp: the answer to the instruments-info request.
AnalyzeSymbol(klines, signal, price, order, resp) ==
    /\ pc = "analyze"
    /\ idx <= Len(SYMBOLS)
    /\ idx' = idx + 1
    /\ LET symbol == SYMBOLS[idx]
           levels == CalculateStopLossTakeProfit(price, signal)
           usdt100 == PositionSizeUsdt(rm)
           got == GetSymbolInfo(symbol_info_cache, symbol, resp)
           info == got.info
           position_size == ProperQuantity(info, usdt100, 100, price)
           net_profit == NetProfit(price, position_size, levels.take_profit)
           commission == TotalCommission(price, position_size, levels.take_profit)
           analysed == active_positions[symbol] = NoPos /\ klines
           sized == analysed /\ signal \in {"BUY", "SELL"} /\ price # None
           checked == sized /\ ValidateTradeSize(rm, usdt100) = "OK"
           admitted == checked /\ GateOutcome(net_profit, commission) = "open"
           opened == admitted /\ order
       IN  /\ symbol_info_cache' = IF sized THEN got.cache ELSE symbol_info_cache
           /\ requests' = IF sized /\ got.requested
                          THEN [requests EXCEPT ![symbol] = @ + 1]
                          ELSE requests
           /\ cycle_log' = cycle_log \cup (IF analysed THEN {"analyze"} ELSE {})
                                     \cup (IF sized THEN {"size"} ELSE {})
                                     \cup (IF checked THEN {"profit"} ELSE {})
                                     \cup (IF admitted THEN {"order"} ELSE {})
           /\ active_positions' =
                  IF opened
                  THEN [active_positions EXCEPT ![symbol] =
                           [side |-> signal, quantity |-> position_size,
                            entry_price |-> price, stop_loss |-> levels.stop_loss,
                            take_profit |-> levels.take_profit]]
                  ELSE active_positions
           /\ trades_executed' = IF opened THEN trades_executed + 1 ELSE trades_executed
           /\ last_open_time' = IF opened THEN now ELSE last_open_time
           /\ now' = IF opened THEN now + TRADE_PAUSE ELSE now
    /\ UNCHANGED <<last_trade_time, pc, cycle_time, today, rmvars, calc, check, armvars, highest>>

\* run_trading_cycle after analyze_and_trade: the time taken before the
\* analysis becomes last_trade_time if a trade was executed.
EndCycle ==
    /\ pc = "analyze"
    /\ idx > Len(SYMBOLS)
    /\ last_trade_time' = IF trades_executed > 0 THEN cycle_time ELSE last_trade_time
    /\ pc' = "idle"
    /\ idx' = 0
    /\ trades_executed' = 0
    /\ cycle_time' = 0
    /\ UNCHANGED <<active_positions, now, cycle_log, last_open_time, today,
                   rmvars, symvars, armvars, highest>>

\* Time passes between two cycles.
Elapse ==
    /\ pc = "idle"
    /\ now < StartTime + MaxElapsed
    /\ now' = now + ElapseStep
    /\ UNCHANGED <<active_positions, last_trade_time, pc, idx, trades_executed,
                   cycle_time, cycle_log, last_open_time, today, rmvars, symvars, armvars, highest>>

BotNext ==
    /\ \/ StartCycle
       \/ MonitorActivePositions
       \/ CheckLimits
       \/ \E klines \in BOOLEAN, signal \in {"BUY", "SELL", "HOLD"},
             price \in BotPrices \cup {None}, order \in BOOLEAN, resp \in BotGatewayAnswers :
              AnalyzeSymbol(klines, signal, price, order, resp)
       \/ EndCycle
       \/ Elapse
       \/ DayRollover /\ pc = "idle" /\ UNCHANGED <<rmvars, symvars, armvars, botvars, highest>>
    /\ UNCHANGED <<gate, pmvars, ebvars, latevars>>

SpecBot == Init /\ [][BotNext]_vars

\* C6: in a cycle where can_trade() is false nothing after the risk check
\* runs: no monitoring, no symbol analysis, no sizing, no profitability
\* check, no order.
C6_HaltedCycleDoesNothing ==
    (verdict \notin {"ok", "none"}) => (pc = "idle" /\ cycle_log = {})

\* A cycle was rejected by the risk check while positions were open and a
\* further position could have been opened.
C6_Witness ==
    /\ verdict = "daily loss limit"
    /\ ActiveCount = 1
    /\ pc = "idle"

\* C9: the number of active positions never exceeds the configured maximum
\* of simultaneous positions.
C9_PositionCap == ActiveCount <= MAX_SIMULTANEOUS_POSITIONS

\* C10: two successive position openings are at least min_trade_interval
\* apart.
C10_Debounce ==
    [][(last_open_time' # last_open_time /\ last_open_time # 0) =>
           last_open_time' - last_open_time >= MIN_TRADE_INTERVAL]_vars

\* ------------------------------------------- commission-profitability gate
\* Entry prices (whole USDT) and take-profit distances (hundredths of USDT,
\* negative for a short) offered to the profitability check.  At entry 997
\* and take profit 1003 the net profit is exactly twice the commission.
GateEntryPrices == {100, 997}

GateOffsets == {10, 500, 600, 700, 0 - 600}

\* Lines 130-148 of analyze_and_trade for one candidate trade:
\* is_trade_profitable(symbol, entry_price, position_size, take_profit) and
\* the two rejections that follow it.  position_size is in tenths of a unit.
ProfitabilityCheck(entry_price, position_size, take_profit) ==
    LET q == position_size * 100
        net_profit == NetProfit(entry_price, q, take_profit)
        commission == TotalCommission(entry_price, q, take_profit)
    IN  gate' = [done |-> TRUE, entry_price |-> entry_price, position_size |-> q,
                 take_profit |-> take_profit, net_profit |-> net_profit,
                 commission |-> commission,
                 outcome |-> GateOutcome(net_profit, commission)]

GateNext ==
    /\ \E e \in GateEntryPrices, off \in GateOffsets, q \in 1..MaxGateSize :
           ProfitabilityCheck(e, q, e * 100 + off)
    /\ UNCHANGED <<today, symvars, armvars, rmvars, botvars, pmvars, ebvars, highest, latevars>>

SpecGate == Init /\ [][GateNext]_vars

\* C11 as stated: open_position is called only if the net profit at take
\* profit (gross profit minus entry and exit commission) strictly exceeds
\* twice that commission; at or below twice the commission the trade is
\* rejected.
C11_StrictlyAboveTwiceCommission ==
    gate.done => (gate.outcome = "open" <=> gate.net_profit > 2 * gate.commission)

\* C11 amended: open_position is called exactly when the net profit is
\* positive and at least twice the commission; a trade whose net profit is
\* below twice the commission is rejected.
C11_AtLeastTwiceCommission ==
    gate.done =>
        (gate.outcome = "open" <=>
            (gate.net_profit > 0 /\ gate.net_profit >= 2 * gate.commission))

\* A profitable trade was rejected because its net profit is below twice
\* the commission.
C11_Witness ==
    /\ gate.done
    /\ gate.net_profit > 0
    /\ gate.net_profit < 2 * gate.commission
    /\ gate.outcome = "profit too small"

\* ---------------------------------------------- PositionManager interface
\* What place_order does: it returns the exchange response, returns None, or
\* an exception escapes into the caller's except clause.
PlaceOrderOutcomes == {"response", "none", "raise"}

Sides == {"BUY", "SELL"}

\* Position sizes (units of 0.001) passed to open_position.
OpenQuantities == {100}

\* PositionManager.open_position(symbol, side, quantity, entry_price,
\* stop_loss, take_profit) with the levels of
\* calculate_stop_loss_take_profit.
OpenPosition(symbol, side, quantity, entry_price, outcome) ==
    LET levels == CalculateStopLossTakeProfit(entry_price, side)
        position == [side |-> side, quantity |-> quantity, entry_price |-> entry_price,
                     stop_loss |-> levels.stop_loss, take_profit |-> levels.take_profit]
        sent == OpenSendsOrder(active_positions, symbol)
        order == outcome = "response"
    IN  /\ active_positions' = OpenedPositions(active_positions, symbol, position, order)
        /\ holding' = IF sent /\ order THEN [holding EXCEPT ![symbol] = TRUE] ELSE holding
        /\ last_call' = [done |-> TRUE, op |-> "open", symbol |-> symbol, side |-> side,
                         quantity |-> quantity,
                         order_sent |-> sent, outcome |-> outcome,
                         result |-> sent /\ order]

\* PositionManager.close_position(symbol, reason)
ClosePosition(symbol, outcome) ==
    LET sent == CloseSendsOrder(active_positions, symbol)
        order == outcome = "response"
    IN  /\ active_positions' = ClosedPositions(active_positions, symbol, order)
        /\ holding' = IF sent /\ order THEN [holding EXCEPT ![symbol] = FALSE] ELSE holding
        /\ last_call' = [done |-> TRUE, op |-> "close", symbol |-> symbol,
                         side |-> IF sent THEN CloseSide(active_positions[symbol]) ELSE "none",
                         quantity |-> IF sent THEN active_positions[symbol].quantity ELSE 0,
                         order_sent |-> sent, outcome |-> outcome,
                         result |-> sent /\ order]

PositionsNext ==
    /\ \/ \E s \in Symbols, side \in Sides, q \in OpenQuantities, p \in BotPrices,
             o \in PlaceOrderOutcomes : OpenPosition(s, side, q, p, o)
       \/ \E s \in Symbols, o \in PlaceOrderOutcomes : ClosePosition(s, o)
    /\ UNCHANGED <<today, symvars, armvars, rmvars, gate, last_trade_time, now, pc, idx,
                   trades_executed, cycle_time, cycle_log, last_open_time, ebvars, highest,
                   latevars>>

SpecPositions == Init /\ [][PositionsNext]_vars

\* C12: positions are tracked one per symbol, and an open_position call for
\* a symbol that already has a tracked position (whatever the direction of
\* the signal) places no order, returns False and leaves the tracked position
\* as it is.
C12_NoDuplicatePosition ==
    [][(last_call'.done /\ last_call'.op = "open"
           /\ active_positions[last_call'.symbol] # NoPos) =>
          /\ ~last_call'.order_sent
          /\ ~last_call'.result
          /\ active_positions' = active_positions]_vars

\* open_position was called for a symbol whose tracked position has the
\* direction of the new signal, and no order went out.
C12_Witness ==
    /\ last_call.done
    /\ last_call.op = "open"
    /\ ~last_call.order_sent
    /\ active_positions[last_call.symbol] # NoPos
    /\ active_positions[last_call.symbol].side = last_call.side

\* C20: a symbol is in active_positions exactly when an opening order for it
\* succeeded and no closing order for it has succeeded since.  When
\* place_order returns nothing or raises during open_position,
\* active_positions is unchanged and False is returned; when the closing
\* order fails during close_position, the position stays tracked and False
\* is returned.
C20_PositionLifecycle ==
    /\ [](\A s \in Symbols : (active_positions[s] # NoPos) <=> holding[s])
    /\ [][(last_call'.done /\ last_call'.outcome # "response") =>
              /\ active_positions' = active_positions
              /\ ~last_call'.result]_vars

\* The closing order of a tracked position failed with an exception and the
\* position is still tracked.
C20_Witness ==
    /\ last_call.done
    /\ last_call.op = "close"
    /\ last_call.order_sent
    /\ last_call.outcome = "raise"
    /\ ~last_call.result
    /\ active_positions[last_call.symbol] # NoPos
    /\ \E s \in Symbols : active_positions[s] = NoPos

\* ------------------------------------------------ EnhancedTradingBot actions
\* Signal strengths calculate_indicators reports.
Strengths == 0..MaxStrength

\* EnhancedTradingBot.get_open_positions: the snapshot is replaced by the
\* positions the exchange reports; when fetch_positions raises it is kept.
GetOpenPositions(reported, fetched) ==
    /\ positions' = IF fetched THEN reported ELSE positions
    /\ UNCHANGED analysis

\* EnhancedTradingBot.analyze_symbol(symbol, data, balance) for the signal and
\* strength calculate_indicators yields: should_trade decides, and only then
\* execute_trade computes the position size and place_order sends the order.
EnhancedAnalyzeSymbol(symbol, signal, strength) ==
    LET admitted == signal # "HOLD" /\ ShouldTrade(positions, symbol, signal, strength)
    IN  /\ analysis' = [done |-> TRUE, symbol |-> symbol, signal |-> signal,
                        strength |-> strength, sized |-> admitted,
                        order_sent |-> admitted,
                        side |-> IF ~admitted THEN "none"
                                 ELSE IF signal = "BUY" THEN "buy" ELSE "sell"]
        /\ UNCHANGED positions

EnhancedNext ==
    /\ \/ \E reported \in [Symbols -> {"none", "long", "short"}], fetched \in BOOLEAN :
              GetOpenPositions(reported, fetched)
       \/ \E s \in Symbols, signal \in {"BUY", "SELL", "HOLD"}, strength \in Strengths :
              EnhancedAnalyzeSymbol(s, signal, strength)
    /\ UNCHANGED <<today, symvars, armvars, rmvars, botvars, gate, pmvars, highest, latevars>>

SpecEnhanced == Init /\ [][EnhancedNext]_vars

\* C14: a BUY or SELL signal whose strength is below the configured minimum
\* is rejected before any position size is computed, and no order is placed
\* for it.
C14_WeakSignalRejected ==
    (analysis.done /\ analysis.signal \in {"BUY", "SELL"}
        /\ analysis.strength < MIN_SIGNAL_STRENGTH) =>
        (~analysis.sized /\ ~analysis.order_sent)

\* A weak BUY signal was rejected although the symbol had no position and
\* the position limit was not reached: the strength alone rejected it.
C14_Witness ==
    /\ analysis.done
    /\ analysis.signal = "BUY"
    /\ analysis.strength < MIN_SIGNAL_STRENGTH
    /\ positions[analysis.symbol] = "none"
    /\ PositionCount(positions) < MAX_POSITIONS
    /\ ~analysis.order_sent

\* ------------------------------------------------- both ledgers' balances
\* The balance operations of the two ledgers, in any interleaving:
\* RiskManager.update_balance and AdvancedRiskManager.update_after_trade.
PeakNext ==
    /\ \/ \E b \in Balances : UpdateBalance(b) /\ UNCHANGED armvars
       \/ \E pnl \in Pnls :
              /\ arm.total_trades < MaxPeakTrades
              /\ UpdateAfterTrade(pnl, pnl > 0)
              /\ UNCHANGED rmvars
    /\ UNCHANGED <<today, symvars, botvars, gate, pmvars, ebvars, latevars>>

SpecPeak == Init /\ [][PeakNext]_vars

\* C16: after any sequence of update_balance and update_after_trade calls,
\* peak_balance is the maximum of the initial balance and every value
\* current_balance has taken, hence peak_balance >= current_balance.
C16_PeakIsHighestBalance ==
    /\ arm.peak_balance = highest.arm
    /\ rm.peak_balance = highest.rm
    /\ arm.peak_balance >= arm.current_balance
    /\ rm.peak_balance >= rm.current_balance

\* Both ledgers have risen above the initial balance and fallen back below
\* their peak.
C16_Witness ==
    /\ arm.peak_balance > INITIAL_BALANCE
    /\ arm.current_balance < arm.peak_balance
    /\ rm.peak_balance > INITIAL_BALANCE
    /\ rm.current_balance < rm.peak_balance

\* ------------------------------------------------ claims on the risk ledger
\* The >=5-loss value of the risk amount: the ledger's own performance and
\* drawdown multipliers with the streak dampener 0.25.
QuarterDampened(a) ==
    a.current_balance * BASE_RISK_PCT * GetRiskMultiplier(a) * 25 * DrawdownFactor(a)

\* C4: with five or more consecutive losses recorded, the risk amount of the
\* next position-size computation is the x0.25 dampened value, one quarter of
\* what the same ledger with zero consecutive losses gives.
C4_FiveLossesQuarterRisk ==
    (sizing.done /\ sizing.position_size.n > 0 /\ arm.consecutive_losses >= 5) =>
        \/ sizing.risk_amount = QuarterDampened(arm)
        \/ 4 * sizing.risk_amount = RiskAmount([arm EXCEPT !.consecutive_losses = 0])

\* Effective risk multiplier of a new trade, scale 10^8: the multipliers of
\* calculate_position_size times the aggressiveness applied by enter_trade.
EffectiveRisk(a) == RiskFactor(a) * GetTradingAggressiveness(a)

EffectiveRiskScale == RiskFactorScale * AggressivenessScale

\* C5: the effective risk fraction of a new trade lies within
\* [0.1 * base_risk_per_trade, 2.0 * base_risk_per_trade]; stated on the
\* ledger states in which a trade is sized and trading is not halted.
C5_RiskBudgetBounds ==
    (sizing.done /\ sizing.position_size.n > 0 /\ ~ShouldStopTrading(arm)) =>
        /\ 10 * EffectiveRisk(arm) >= EffectiveRiskScale
        /\ EffectiveRisk(arm) <= 2 * EffectiveRiskScale

\* C15: for an entry price > 0, calculate_position_size(entry_price,
\* stop_loss = entry_price, symbol) returns 0 and raises no division-by-zero
\* error, whatever the ledger state.
C15_DegenerateStopIsZero ==
    (sizing.done /\ sizing.entry_price > 0 /\ sizing.stop_loss = sizing.entry_price) =>
        (~sizing.raised /\ sizing.position_size.n = 0)

\* A degenerate stop was sized on a ledger with a trade history whose risk
\* amount is positive and whose daily loss limit is not reached: the stop
\* alone makes the size 0.
C15_Witness ==
    /\ sizing.done
    /\ sizing.stop_loss = sizing.entry_price
    /\ arm.total_trades > 10
    /\ arm.consecutive_losses >= 3
    /\ sizing.risk_amount > 0
    /\ ~DailyLossLimitReached(arm)
    /\ sizing.position_size.n = 0

\* C17: over any sequence of ledger operations total_trades, winning_trades
\* and max_consecutive_losses never decrease, consecutive_losses decreases
\* only by being reset to 0 on a win, and always winning_trades <=
\* total_trades and consecutive_losses <= max_consecutive_losses <=
\* total_trades - winning_trades.
C17_CountersMonotone ==
    /\ [](/\ arm.winning_trades <= arm.total_trades
          /\ arm.consecutive_losses <= arm.max_consecutive_losses
          /\ arm.max_consecutive_losses <= arm.total_trades - arm.winning_trades)
    /\ [][/\ arm'.total_trades >= arm.total_trades
          /\ arm'.winning_trades >= arm.winning_trades
          /\ arm'.max_consecutive_losses >= arm.max_consecutive_losses
          /\ arm'.consecutive_losses < arm.consecutive_losses =>
                 (arm'.consecutive_losses = 0 /\ trade'.done /\ trade'.is_win
                     /\ arm'.winning_trades = arm.winning_trades + 1)]_vars

\* A new losing streak, shorter than the longest one, has begun after a win.
C17_Witness ==
    /\ arm.winning_trades >= 1
    /\ arm.consecutive_losses >= 1
    /\ arm.consecutive_losses < arm.max_consecutive_losses
    /\ arm.max_consecutive_losses < arm.total_trades - arm.winning_trades

\* C7: update_after_trade with is_win = True leaves consecutive_losses = 0;
\* with is_win = False it leaves the previous value plus one.
C7_ConsecutiveLossReset ==
    [][arm'.total_trades = arm.total_trades + 1 =>
         IF trade'.is_win
         THEN arm'.consecutive_losses = 0
         ELSE arm'.consecutive_losses = arm.consecutive_losses + 1]_vars

\* A win recorded right after a losing streak of three or more trades.
C7_Witness ==
    /\ trade.done /\ trade.is_win
    /\ arm.winning_trades = 1
    /\ arm.max_consecutive_losses >= 3
    /\ arm.total_trades = arm.max_consecutive_losses + 1
    /\ arm.consecutive_losses = 0

\* C8: max_drawdown never decreases, and after each update_after_trade it is
\* at least the current drawdown (peak_balance - current_balance) / peak_balance.
C8_MaxDrawdownMonotone ==
    [][/\ FracLE(arm.max_drawdown, arm'.max_drawdown)
       /\ FracLE(CalculateCurrentDrawdown(arm'), arm'.max_drawdown)]_vars

\* A winning trade has brought the drawdown back below the recorded maximum
\* without clearing it.
C8_Witness ==
    /\ trade.done /\ trade.is_win
    /\ arm.drawdown.n > 0
    /\ FracLT(arm.drawdown, arm.max_drawdown)


\* ------------------------------------------- monitoring of open positions
\* One monitoring pass of ProfessionalTradingBot over the positions that
\* analyze_and_trade opened (the side handed to open_position is the signal,
\* BUY or SELL). The pass fetches a price per tracked symbol and calls
\* close_position where the exit test fires; accepted is the set of symbols
\* whose closing order the exchange accepted.
MonitorPass(price, order) ==
    LET closes == ClosesIssued(active_positions, price)
    IN  /\ active_positions' = MonitoredPositions(active_positions, price, order)
        /\ holding' = [s \in Symbols |->
                          IF s \in closes /\ order[s] THEN FALSE ELSE holding[s]]
        /\ monitored' = [done |-> TRUE,
                         price |-> [s \in Symbols |->
                                       IF active_positions[s] # NoPos THEN price[s]
                                       ELSE None],
                         closes |-> closes,
                         accepted |-> {s \in closes : order[s]}]
        /\ UNCHANGED last_call

MonitorNext ==
    /\ \/ \E s \in Symbols, side \in Sides, q \in OpenQuantities, p \in BotPrices :
             OpenPosition(s, side, q, p, "response") /\ monitored' = NoCall
       \/ \E price \in [Symbols -> BotPrices \cup {None}], order \in [Symbols -> BOOLEAN] :
             MonitorPass(price, order)
    /\ UNCHANGED <<today, symvars, armvars, rmvars, gate, last_trade_time, now, pc, idx,
                       trades_executed, cycle_time, cycle_log, last_open_time, ebvars, highest,
                   tbvars, engine, evaluation, fetch>>

SpecMonitor == Init /\ [][MonitorNext]_vars

\* A long position is one opened by a buy order, a short one by a sell order.
IsLong(position) == BybitSide(position.side) = "Buy"

\* The price (whole USDT) is at or beyond the stop loss or the take profit
\* of the position (levels in hundredths): at or below the stop loss or at
\* or above the take profit for a long, mirrored for a short.
AtOrBeyondExit(position, current_price) ==
    IF IsLong(position)
    THEN \/ current_price * 100 <= position.stop_loss
         \/ current_price * 100 >= position.take_profit
    ELSE \/ current_price * 100 >= position.stop_loss
         \/ current_price * 100 <= position.take_profit

\* C21: a monitoring pass that observes a tracked position's price at or
\* beyond its stop loss or take profit issues a close for it, and if the
\* closing order is accepted the position is no longer active after the pass.
C21_ExitAtStopOrTarget ==
    [][monitored'.done =>
          \A s \in Symbols :
              (/\ active_positions[s] # NoPos
               /\ monitored'.price[s] # None
               /\ AtOrBeyondExit(active_positions[s], monitored'.price[s]))
              => /\ s \in monitored'.closes
                 /\ (s \in monitored'.accepted => active_positions'[s] = NoPos)]_vars


\* ------------------------------------- EnhancedTradingBot (src/trading)
\* config.get('min_order_size', 10), in USDT.
MIN_ORDER_SIZE == 10

\* The P&L values an exit hands to update_after_trade.
ExitPnls == {0 - BigLoss, 0 - LossSize, WinSize}

\* What generate_signal does: a signal with one of the three actions, or an
\* exception.
SignalOutcomes == {"HOLD", "BUY", "SELL", "raise"}

\* signal.action.lower() of a BUY or SELL signal.
LowerAction(action) == IF action = "BUY" THEN "buy" ELSE "sell"

\* enter_trade: position_size * aggressiveness * current_price in hundredths
\* of USDT, rounded down (risk_amount is in units of 10^-7 USDT).
OrderValue(a, entry_price, stop_loss) ==
    ((RiskAmount(a) \div RiskFactorScale) * GetTradingAggressiveness(a) * entry_price)
        \div (AggressivenessScale * Abs(entry_price - stop_loss))

\* enter_trade on the ledger a (after the daily reset of
\* calculate_position_size): the position is recorded when the size is
\* positive, the order value reaches the minimum and the exchange order
\* does not raise.
EnterTradeOpens(a, entry_price, stop_loss, order) ==
    LET answer == PositionSize(a, entry_price, stop_loss)
    IN  /\ ~answer.raised
        /\ answer.size.n > 0
        /\ OrderValue(a, entry_price, stop_loss) >= MIN_ORDER_SIZE * 100
        /\ order

\* exit_trade: the position is deleted in the last statement, reached when
\* neither the exchange order nor the database update raised.
ExitRemoves(order, db) == order /\ db

\* EnhancedTradingBot.run up to the loop: is_running = True.
Run ==
    /\ run_pc = "init"
    /\ is_running' = TRUE
    /\ run_pc' = "check"
    /\ UNCHANGED <<cursor, entered, exits, entry, seen, shutdown, arm, highest, today>>

\* run: the loop condition and the risk check at the head of an iteration.
CheckRiskLimits ==
    /\ run_pc = "check"
    /\ IF is_running /\ ~ShouldStopTrading(arm)
       THEN /\ run_pc' = "symbols"
            /\ cursor' = 1
            /\ seen' = {}
       ELSE /\ run_pc' = "cleanup"
            /\ UNCHANGED <<cursor, seen>>
    /\ entry' = NoCall
    /\ UNCHANGED <<is_running, entered, exits, shutdown, arm, highest, today>>

\* process_symbol for the symbol at the cursor.  has_data: get_market_data
\* returned data (it returns None on an empty answer or an exception);
\* signal: the outcome of generate_signal; confident: confidence above
\* min_confidence; entry_order, exit_order: the exchange order does not
\* raise; should_exit, pnl: the exit conditions of monitor_position and the
\* P&L at the current price; db: the database update of exit_trade does not
\* raise.
ProcessSymbol(has_data, signal, confident, stop_loss, entry_order, should_exit, pnl, exit_order, db) ==
    /\ run_pc = "symbols"
    /\ cursor <= Len(TradedSymbols)
    /\ LET symbol == TradedSymbols[cursor]
           skipped == ~has_data \/ signal = "raise"
           wants == /\ ~skipped
                    /\ signal # "HOLD"
                    /\ confident
                    /\ entered[symbol] = NoPos
           a == IF wants THEN ResetDailyIfNeeded(arm, today) ELSE arm
           opens == wants /\ EnterTradeOpens(a, EntryPrice, stop_loss, entry_order)
           held == IF opens THEN [side |-> LowerAction(signal)] ELSE entered[symbol]
           leaves == ~skipped /\ held # NoPos /\ should_exit
           sent == leaves /\ exit_order
           counted == IF opens THEN NoExits ELSE exits[symbol]
       IN  /\ sent => (arm.total_trades < MaxExits /\ counted.orders < MaxExitOrders)
           /\ arm' = IF sent THEN AfterTrade(a, pnl, pnl > 0) ELSE a
           /\ entered' = [entered EXCEPT ![symbol] =
                             IF leaves /\ ExitRemoves(exit_order, db) THEN NoPos ELSE held]
           /\ exits' = [exits EXCEPT ![symbol] =
                           IF sent THEN [orders |-> counted.orders + 1,
                                         updates |-> counted.updates + 1]
                           ELSE counted]
           /\ entry' = IF opens
                       THEN [done |-> TRUE, symbol |-> symbol,
                             halted |-> ShouldStopTrading(a)]
                       ELSE NoCall
           /\ seen' = seen \cup {symbol}
    /\ highest' = [highest EXCEPT !.arm = Max2(@, arm'.current_balance)]
    /\ cursor' = cursor + 1
    /\ UNCHANGED <<is_running, run_pc, shutdown, today>>

\* run: after the last symbol the metrics are updated and the loop sleeps;
\* an exception there is logged and the loop goes on.
EndIteration ==
    /\ run_pc = "symbols"
    /\ cursor > Len(TradedSymbols)
    /\ run_pc' = "check"
    /\ entry' = NoCall
    /\ UNCHANGED <<is_running, cursor, entered, exits, seen, shutdown, arm, highest, today>>

\* run: KeyboardInterrupt (the user stops the bot) leaves the loop for the
\* finally clause.
Interrupt ==
    /\ run_pc \in {"check", "symbols"}
    /\ run_pc' = "cleanup"
    /\ entry' = NoCall
    /\ UNCHANGED <<is_running, cursor, entered, exits, seen, shutdown, arm, highest, today>>

\* cleanup: is_running = False and the snapshot list(active_positions.keys())
BeginCleanup ==
    /\ run_pc = "cleanup"
    /\ is_running' = FALSE
    /\ run_pc' = "closing"
    /\ shutdown' = [done |-> TRUE,
                    active |-> {s \in Traded : entered[s] # NoPos},
                    pending |-> {s \in Traded : entered[s] # NoPos},
                    ordered |-> {}]
    /\ UNCHANGED <<cursor, entered, exits, entry, seen, arm, highest, today>>

\* cleanup: exit_trade(symbol, "Bot shutdown", pnl) for one symbol of the
\* snapshot; ordered collects the symbols whose closing order went out.
CleanupSymbol(symbol, pnl, order, db) ==
    /\ run_pc = "closing"
    /\ symbol \in shutdown.pending
    /\ order => (arm.total_trades < MaxExits /\ exits[symbol].orders < MaxExitOrders)
    /\ arm' = IF order THEN AfterTrade(arm, pnl, pnl > 0) ELSE arm
    /\ highest' = [highest EXCEPT !.arm = Max2(@, arm'.current_balance)]
    /\ entered' = [entered EXCEPT ![symbol] = IF ExitRemoves(order, db) THEN NoPos ELSE @]
    /\ exits' = [exits EXCEPT ![symbol] =
                    IF order THEN [orders |-> @.orders + 1, updates |-> @.updates + 1]
                    ELSE @]
    /\ shutdown' = [shutdown EXCEPT !.pending = @ \ {symbol},
                                    !.ordered = IF order THEN @ \cup {symbol} ELSE @]
    /\ UNCHANGED <<is_running, run_pc, cursor, entry, seen, today>>

\* cleanup returns and run ends.
FinishCleanup ==
    /\ run_pc = "closing"
    /\ shutdown.pending = {}
    /\ run_pc' = "exited"
    /\ UNCHANGED <<is_running, cursor, entered, exits, entry, seen, shutdown, arm,
                   highest, today>>

TradingNext ==
    /\ \/ Run
       \/ CheckRiskLimits
       \/ \E has_data \in BOOLEAN :
          \E signal \in IF has_data THEN SignalOutcomes ELSE {"HOLD"} :
          \E confident \in IF signal \in {"BUY", "SELL"} THEN BOOLEAN ELSE {FALSE} :
          \E stop_loss \in IF confident THEN StopLosses ELSE {EntryPrice} :
          \E entry_order \in IF confident THEN BOOLEAN ELSE {FALSE} :
          \E should_exit \in IF has_data /\ signal # "raise" THEN BOOLEAN ELSE {FALSE} :
          \E pnl \in IF should_exit THEN ExitPnls ELSE {WinSize} :
          \E exit_order \in IF should_exit THEN BOOLEAN ELSE {FALSE} :
          \E db \in IF exit_order THEN BOOLEAN ELSE {FALSE} :
             ProcessSymbol(has_data, signal, confident, stop_loss, entry_order,
                           should_exit, pnl, exit_order, db)
       \/ EndIteration
       \/ Interrupt
       \/ BeginCleanup
       \/ \E s \in Traded, pnl \in ExitPnls, order \in BOOLEAN :
          \E db \in IF order THEN BOOLEAN ELSE {FALSE} :
             CleanupSymbol(s, pnl, order, db)
       \/ FinishCleanup
       \/ /\ DayRollover
          /\ UNCHANGED <<tbvars, arm, highest>>
    /\ UNCHANGED <<symvars, sizing, trade, rmvars, botvars, gate, pmvars, ebvars, monitored,
                   engine, evaluation, fetch>>

SpecTrading == Init /\ [][TradingNext]_vars


\* C22: after the shutdown no further trading cycle is started, a close is
\* attempted for every position that was active at shutdown, and if every
\* closing order succeeded no position is active when the bot exits.
C22_ShutdownClosesAll ==
    /\ [][(run_pc \notin {"init", "check", "symbols"})
              => (run_pc' \notin {"init", "check", "symbols"})]_vars
    /\ [](run_pc = "exited" =>
             /\ shutdown.pending = {}
             /\ (shutdown.ordered = shutdown.active
                    => \A s \in Traded : entered[s] = NoPos))

\* C27: each position is exited at most once: at most one closing order is
\* sent and update_after_trade is called at most once for it.
C27_ExitedAtMostOnce ==
    \A s \in Traded : exits[s].orders <= 1 /\ exits[s].updates <= 1

\* C28: no position is entered in a state where should_stop_trading() is
\* true.
C28_NoEntryWhileHalted ==
    entry.done => ~entry.halted


\* ------------------------------------------------------------ TradingEngine
MAX_CONCURRENT_TRADES == 3

\* The pairs of TRADING_PAIRS from index i on that the data collection put
\* into all_data (get_market_data returned a non-empty frame).
RECURSIVE CollectedFrom(_, _)
CollectedFrom(data, i) ==
    IF i > Len(TRADING_PAIRS) THEN <<>>
    ELSE IF data[TRADING_PAIRS[i]] = "none" THEN CollectedFrom(data, i + 1)
    ELSE <<TRADING_PAIRS[i]>> \o CollectedFrom(data, i + 1)

\* can_open_new_position: fewer than MAX_CONCURRENT_TRADES open positions
\* and the pair's correlation with the portfolio not above the threshold.
CanOpenNewPosition(held, correlated) ==
    /\ Cardinality({p \in Pairs : held[p]}) < MAX_CONCURRENT_TRADES
    /\ ~correlated

\* execute_buy and execute_sell: whether the pair has an open position in
\* active_positions afterwards.  reported: the exchange reports a long
\* position; order: the market order went through.
Executed(held, signal, allowed, reported, order) ==
    IF signal = "BUY"
    THEN IF ~allowed THEN held
         ELSE IF reported THEN TRUE
         ELSE IF order THEN TRUE ELSE held
    ELSE IF signal = "SELL"
    THEN IF reported THEN (IF order THEN FALSE ELSE held) ELSE FALSE
    ELSE held

\* execute_trading_cycle: its one try block spans the whole loop, so an
\* exception raised in the body ends the cycle.
RemainingAfterRaise(queue) == <<>>

\* execute_trading_cycle, data collection: data tells per pair whether
\* get_market_data returned nothing ("none"), fewer than 100 rows ("short")
\* or a full history.
CollectData(data) ==
    /\ engine.pc = "idle"
    /\ engine' = [engine EXCEPT
                     !.queue = CollectedFrom(data, 1),
                     !.pc = IF CollectedFrom(data, 1) = <<>> THEN "idle" ELSE "pairs",
                     !.ready = {p \in Pairs : data[p] = "full"},
                     !.raised = {},
                     !.handled = {}]

\* execute_trading_cycle, one pass of the loop over all_data.  outcome is
\* the signal generated for the pair, or "raise" when calculate_indicators,
\* generate_signal or the logging of the pass raises.
ProcessPair(outcome, correlated, reported, order) ==
    /\ engine.pc = "pairs"
    /\ LET pair == Head(engine.queue)
           rest == IF pair \notin engine.ready THEN Tail(engine.queue)
                   ELSE IF outcome = "raise" THEN RemainingAfterRaise(engine.queue)
                   ELSE Tail(engine.queue)
           done == pair \in engine.ready /\ outcome # "raise"
           allowed == CanOpenNewPosition(engine.positions, correlated)
       IN  engine' = [engine EXCEPT
               !.queue = rest,
               !.pc = IF rest = <<>> THEN "idle" ELSE "pairs",
               !.raised = IF pair \in engine.ready /\ outcome = "raise"
                          THEN @ \cup {pair} ELSE @,
               !.handled = IF done THEN @ \cup {pair} ELSE @,
               !.pair_signals[pair] = IF done THEN outcome ELSE @,
               !.positions[pair] = IF done
                                   THEN Executed(@, outcome, allowed, reported, order)
                                   ELSE @]

EngineNext ==
    /\ \/ \E data \in [Pairs -> {"none", "short", "full"}] : CollectData(data)
       \/ \E outcome \in SignalOutcomes :
          \E correlated \in IF outcome = "BUY" THEN BOOLEAN ELSE {FALSE} :
          \E reported \in IF outcome \in {"BUY", "SELL"} THEN BOOLEAN ELSE {FALSE} :
          \E order \in IF outcome \in {"BUY", "SELL"} THEN BOOLEAN ELSE {FALSE} :
             ProcessPair(outcome, correlated, reported, order)
    /\ UNCHANGED <<today, symvars, armvars, rmvars, botvars, gate, pmvars, ebvars, highest,
                   monitored, tbvars, evaluation, fetch>>

SpecEngine == Init /\ [][EngineNext]_vars

\* C23: within one trading cycle a gateway failure or an exception raised
\* while processing one symbol skips only that symbol: when the cycle is
\* over, every symbol with a full history whose own processing did not
\* raise has been processed.
C23_FailureIsolation ==
    engine.pc = "idle" => engine.handled = engine.ready \ engine.raised


\* The drawdown tiers as stated, in tenths: 0.4 above 10%, 0.7 above 5% and
\* not above 10%, 1.0 otherwise.
TieredDrawdownFactor(a) ==
    IF AbovePct(CalculateCurrentDrawdown(a), 10) THEN 4
    ELSE IF AbovePct(CalculateCurrentDrawdown(a), 5) THEN 7
    ELSE 10

\* C24: the risk amount of a new trade carries the drawdown multiplier 0.7
\* when the current drawdown is above 5% and not above 10%, and 0.4 when it
\* is above 10%.
C24_DrawdownTiers ==
    (sizing.done /\ sizing.position_size.n > 0) =>
        sizing.risk_amount =
            arm.current_balance * BASE_RISK_PCT * GetRiskMultiplier(arm)
                * LossStreakFactor(arm) * TieredDrawdownFactor(arm)


\* ---------------------------------------------------------- TradingStrategy
\* The scores of _evaluate_signals are Python floats.  A double below 8 that
\* arises from the weights is written [t, e]: its value is
\* t / 10 + e / (10 * 2^52), t in tenths and e the representation error in
\* tenths of 2^-52 (1.1 is 1.1 + 0.4 * 2^-52).
Double(t, e) == [t |-> t, e |-> e]

\* x >= k / 10 for a double x >= 0 and a whole number of tenths k.
DoubleAtLeast(x, k) == x.t > k \/ (x.t = k /\ x.e >= 0)

\* x > k / 10 where k / 10 is itself a double (2.5).
DoubleAbove(x, k) == x.t > k \/ (x.t = k /\ x.e > 0)

DoubleNegative(x) == x.t < 0 \/ (x.t = 0 /\ x.e < 0)

DoubleNegate(x) == Double(0 - x.t, 0 - x.e)

\* Round-to-nearest-even of an exact sum x >= 0 of two doubles: below 2 the
\* sum is representable; in [2, 4) the doubles are the multiples of 2^-51,
\* in [4, 8) those of 2^-50 (2^52 = 16 modulo 20, 40 and 80).
RoundMagnitude(x) ==
    LET n == 16 * x.t + x.e
    IN  IF DoubleAtLeast(x, 40)
        THEN IF n % 40 = 0 THEN x
             ELSE IF n % 40 = 10 THEN Double(x.t, x.e - 10)
             ELSE IF n % 40 = 30 THEN Double(x.t, x.e + 10)
             ELSE IF (n + 20) % 80 = 0 THEN Double(x.t, x.e + 20)
             ELSE Double(x.t, x.e - 20)
        ELSE IF DoubleAtLeast(x, 20)
        THEN IF n % 20 = 0 THEN x
             ELSE IF (n + 10) % 40 = 0 THEN Double(x.t, x.e + 10)
             ELSE Double(x.t, x.e - 10)
        ELSE x

RoundDouble(x) ==
    IF DoubleNegative(x) THEN DoubleNegate(RoundMagnitude(DoubleNegate(x)))
    ELSE RoundMagnitude(x)

\* Float addition and subtraction.
DoubleAdd(x, y) == RoundDouble(Double(x.t + y.t, x.e + y.e))

DoubleSub(x, y) == RoundDouble(Double(x.t - y.t, x.e - y.e))

\* threshold = 2.5, in tenths.
SIGNAL_THRESHOLD == 25

\* _generate_trading_signals: the weights 1.5, 1.2, 1.3, 1.1, 1.1 and 1.0.
RsiWeight == Double(15, 0)
EmaWeight == Double(12, 0 - 2)
MacdWeight == Double(13, 2)
BbWeight == Double(11, 4)
TrendWeight == Double(11, 4)
SrWeight == Double(10, 0)

Vote(signal, weight) == [signal |-> signal, weight |-> weight]

\* _generate_trading_signals: the vote list, in the order the rules append
\* to it; each rule votes for one side or not at all.
Votes(rsi, ema, macd, bb, trend, support, resistance) ==
    (IF rsi = "buy" THEN <<Vote("RSI_OVERSOLD_BUY", RsiWeight)>>
     ELSE IF rsi = "sell" THEN <<Vote("RSI_OVERBOUGHT_SELL", RsiWeight)>> ELSE <<>>)
    \o (IF ema = "buy" THEN <<Vote("EMA_GOLDEN_CROSS", EmaWeight)>>
        ELSE IF ema = "sell" THEN <<Vote("EMA_DEATH_CROSS", EmaWeight)>> ELSE <<>>)
    \o (IF macd = "buy" THEN <<Vote("MACD_BUY", MacdWeight)>>
        ELSE IF macd = "sell" THEN <<Vote("MACD_SELL", MacdWeight)>> ELSE <<>>)
    \o (IF bb = "buy" THEN <<Vote("BB_OVERSOLD", BbWeight)>>
        ELSE IF bb = "sell" THEN <<Vote("BB_OVERBOUGHT", BbWeight)>> ELSE <<>>)
    \o (IF trend = "buy" THEN <<Vote("UPTREND", TrendWeight)>>
        ELSE IF trend = "sell" THEN <<Vote("DOWNTREND", TrendWeight)>> ELSE <<>>)
    \o (IF support THEN <<Vote("NEAR_SUPPORT", SrWeight)>> ELSE <<>>)
    \o (IF resistance THEN <<Vote("NEAR_RESISTANCE", SrWeight)>> ELSE <<>>)

\* _evaluate_signals: the names with 'BUY', 'GOLDEN', 'UPTREND', 'OVERSOLD'
\* or 'NEAR_SUPPORT' in them count for buy_score; of the others, those with
\* 'SELL', 'DEATH', 'DOWNTREND', 'OVERBOUGHT' or 'NEAR_RESISTANCE' count for
\* sell_score.
BuyVotes == {"RSI_OVERSOLD_BUY", "EMA_GOLDEN_CROSS", "MACD_BUY", "BB_OVERSOLD",
             "UPTREND", "NEAR_SUPPORT"}

SellVotes == {"RSI_OVERBOUGHT_SELL", "EMA_DEATH_CROSS", "MACD_SELL", "BB_OVERBOUGHT",
              "DOWNTREND", "NEAR_RESISTANCE"}

\* _evaluate_signals: the score after the first n votes, summed in order.
RECURSIVE Score(_, _, _)
Score(votes, counted, n) ==
    IF n = 0 THEN Double(0, 0)
    ELSE IF votes[n].signal \in counted
    THEN DoubleAdd(Score(votes, counted, n - 1), votes[n].weight)
    ELSE Score(votes, counted, n - 1)

\* The action for given scores with the threshold comparison not strict.
Decide_AtThreshold(buy_score, sell_score) ==
    IF DoubleAtLeast(DoubleSub(buy_score, sell_score), SIGNAL_THRESHOLD) THEN "BUY"
    ELSE IF DoubleAtLeast(DoubleSub(sell_score, buy_score), SIGNAL_THRESHOLD) THEN "SELL"
    ELSE "HOLD"

\* _evaluate_signals: the action for given scores.
Decide(buy_score, sell_score) ==
    IF DoubleAbove(DoubleSub(buy_score, sell_score), SIGNAL_THRESHOLD) THEN "BUY"
    ELSE IF DoubleAbove(DoubleSub(sell_score, buy_score), SIGNAL_THRESHOLD) THEN "SELL"
    ELSE "HOLD"

\* TradingStrategy._evaluate_signals(signals)
EvaluateSignals(votes) ==
    LET buy_score == Score(votes, BuyVotes, Len(votes))
        sell_score == Score(votes, SellVotes, Len(votes))
    IN  [buy_score |-> buy_score, sell_score |-> sell_score,
         action |-> IF votes = <<>> THEN "HOLD" ELSE Decide(buy_score, sell_score)]

\* A call of _evaluate_signals.
EvaluateSignalsCall(votes) ==
    evaluation' = [done |-> TRUE, op |-> "evaluate", votes |-> votes,
                   buy_score |-> EvaluateSignals(votes).buy_score,
                   sell_score |-> EvaluateSignals(votes).sell_score,
                   action |-> EvaluateSignals(votes).action,
                   raised |-> FALSE]

\* TradingStrategy.analyze_symbol(symbol, df).  history: df is None, shorter
\* than 100 rows, or full; indicators: the indicator computation (or any
\* later step) raises or not; volatility, volume: the two filters.  Every
\* exception is caught and answered with HOLD.
StrategyAnalyzeSymbol(history, indicators, volatility, volume, votes) ==
    LET scored == /\ history = "full"
                  /\ indicators = "ok"
                  /\ volatility = "ok"
                  /\ volume
        result == EvaluateSignals(IF scored THEN votes ELSE <<>>)
    IN  evaluation' = [done |-> TRUE, op |-> "analyze",
                       votes |-> IF scored THEN votes ELSE <<>>,
                       buy_score |-> result.buy_score,
                       sell_score |-> result.sell_score,
                       action |-> result.action,
                       raised |-> FALSE,
                       history |-> history,
                       indicators |-> IF history = "full" THEN indicators ELSE "none"]

Sides3 == {"none", "buy", "sell"}

\* The vote lists _generate_trading_signals can produce when rules may vote.
VoteLists(voting) ==
    LET sides == IF voting THEN Sides3 ELSE {"none"}
        flags == IF voting THEN BOOLEAN ELSE {FALSE}
    IN  {Votes(rsi, ema, macd, bb, trend, support, resistance) :
            rsi \in sides, ema \in sides, macd \in sides, bb \in sides,
            trend \in sides, support \in flags, resistance \in flags}

\* The strategy keeps no state between calls: one call is followed from the
\* initial state.
StrategyNext ==
    /\ ~evaluation.done
    /\ \/ \E votes \in VoteLists(TRUE) : EvaluateSignalsCall(votes)
       \/ \E history \in {"none", "short", "full"} :
          \E indicators \in IF history = "full" THEN {"ok", "raise"} ELSE {"ok"} :
          \E volatility \in IF history = "full" /\ indicators = "ok"
                             THEN {"low", "ok", "high"} ELSE {"ok"} :
          \E volume \in IF history = "full" /\ indicators = "ok" /\ volatility = "ok"
                         THEN BOOLEAN ELSE {TRUE} :
          \E votes \in VoteLists(/\ history = "full"
                                   /\ indicators = "ok"
                                   /\ volatility = "ok"
                                   /\ volume) :
             StrategyAnalyzeSymbol(history, indicators, volatility, volume, votes)
    /\ UNCHANGED <<today, symvars, armvars, rmvars, botvars, gate, pmvars, ebvars, highest,
                   monitored, tbvars, engine, fetch>>

SpecStrategy == Init /\ [][StrategyNext]_vars

\* C25: the strategy returns exactly one of BUY, SELL and HOLD: BUY iff
\* buy_score - sell_score > threshold, SELL iff sell_score - buy_score >
\* threshold, HOLD otherwise, also for an empty vote list and for a
\* difference equal to the threshold; and analyze_symbol answers HOLD,
\* without an exception, when the history is insufficient or the indicator
\* computation fails.
C25_SignalDecision ==
    evaluation.done =>
        /\ evaluation.action \in {"BUY", "SELL", "HOLD"}
        /\ evaluation.action = "BUY" <=>
               DoubleAbove(DoubleSub(evaluation.buy_score, evaluation.sell_score),
                           SIGNAL_THRESHOLD)
        /\ evaluation.action = "SELL" <=>
               DoubleAbove(DoubleSub(evaluation.sell_score, evaluation.buy_score),
                           SIGNAL_THRESHOLD)
        /\ evaluation.votes = <<>> => evaluation.action = "HOLD"
        /\ (evaluation.op = "analyze"
               /\ (evaluation.history # "full" \/ evaluation.indicators = "raise"))
           => (evaluation.action = "HOLD" /\ ~evaluation.raised)

\* Votes were scored to a difference equal to the threshold (1.5 + 1.0
\* against nothing) and the answer is HOLD.
C25_Witness ==
    /\ evaluation.done
    /\ evaluation.votes # <<>>
    /\ DoubleSub(evaluation.buy_score, evaluation.sell_score) = Double(SIGNAL_THRESHOLD, 0)
    /\ evaluation.action = "HOLD"


\* C26: the order close_position sends has the opposite exchange side to the
\* order that opened the position (Sell for a position opened with a Buy
\* order and the reverse), and the same quantity.
C26_CloseReversesOpen ==
    [][(last_call'.done /\ last_call'.op = "close" /\ last_call'.order_sent) =>
          (/\ BybitSide(last_call'.side)
                 # BybitSide(active_positions[last_call'.symbol].side)
           /\ last_call'.quantity = active_positions[last_call'.symbol].quantity)]_vars


\* ------------------------------------------- balance update of the cycle
\* What the wallet-balance request yields: a parsed USDT balance, or a
\* failure (network error, error code, unparsable response).
BalanceResponses ==
    {[ok |-> FALSE, balance |-> 0]} \cup {[ok |-> TRUE, balance |-> b] : b \in Balances \cup {0}}

\* BybitClient.get_account_balance: the parsed balance, and
\* Config.INITIAL_BALANCE when the request fails.
AccountBalance(response) ==
    IF response.ok THEN response.balance ELSE INITIAL_BALANCE

\* run_trading_cycle, balance update: the balance is fetched and, when it is
\* truthy, handed to update_balance.
RefreshBalance(response) ==
    LET current_balance == AccountBalance(response)
    IN  /\ IF current_balance # 0
           THEN UpdateBalance(current_balance)
           ELSE UNCHANGED <<rm, highest, update, verdict>>
        /\ fetch' = [done |-> TRUE, failed |-> ~response.ok, before |-> rm]

BalanceNext ==
    /\ \/ \E response \in BalanceResponses : RefreshBalance(response) /\ UNCHANGED today
       \/ DayRollover /\ UNCHANGED <<rmvars, highest, fetch>>
    /\ UNCHANGED <<symvars, armvars, botvars, gate, pmvars, ebvars, monitored, tbvars,
                   engine, evaluation>>

SpecBalance == Init /\ [][BalanceNext]_vars

\* C29: in a cycle whose balance request fails, current_balance,
\* peak_balance and daily_start_balance of the risk manager are the same
\* after the balance-update step as before it.
C29_FailedFetchKeepsLedger ==
    (fetch.done /\ fetch.failed) =>
        /\ rm.current_balance = fetch.before.current_balance
        /\ rm.peak_balance = fetch.before.peak_balance
        /\ rm.daily_start_balance = fetch.before.daily_start_balance

\* ------------------------------------------------ notional of the open orders
\* Prices get_current_price reports while the orders are sized: one at which
\* the desired notional buys more than every minimum quantity, one at which
\* it buys less than the minimum quantity of ADAUSDT.
OrderPrices == {5 * PriceUnit, 25 * PriceUnit}

\* The trading bot with the prices above and the default constraint table.
OrdersNext ==
    /\ \/ StartCycle
       \/ MonitorActivePositions
       \/ CheckLimits
       \/ \E klines \in BOOLEAN, signal \in {"BUY", "SELL", "HOLD"},
             price \in OrderPrices \cup {None}, order \in BOOLEAN,
             resp \in BotGatewayAnswers :
              AnalyzeSymbol(klines, signal, price, order, resp)
       \/ EndCycle
       \/ Elapse
       \/ DayRollover /\ pc = "idle" /\ UNCHANGED <<rmvars, symvars, armvars, botvars, highest>>
    /\ UNCHANGED <<gate, pmvars, ebvars, latevars>>

SpecOrders == Init /\ [][OrdersNext]_vars

\* C30: every order that opens a position has quantity * price no greater
\* than 20% of the risk manager's current_balance, whatever the constraint
\* set of the symbol and the price (quantity in units of 0.001).
C30_NotionalWithinBand ==
    [][\A s \in Symbols :
           (active_positions[s] = NoPos /\ active_positions'[s] # NoPos) =>
               (active_positions'[s].quantity * active_positions'[s].entry_price * 5
                    <= rm.current_balance * UnitsPerOne)]_vars

====
